---- MODULE Spec2Model ----
(***************************************************************************)
(* A model of the Gradebook class of the grade viewer (the TypeScript that *)
(* follows the Check icon in src/src/components/icons/svg/Check.tsx, lines *)
(* 11-390): the live and shadow course stores and their fetch path, the    *)
(* weighted-ratio calculator, the mark and style mappers and the GPA       *)
(* aggregator.                                                             *)
(*                                                                         *)
(* JavaScript numbers are modelled as extended rationals <<n, d>> with     *)
(* d >= 0 in lowest terms: d = 0 stands for NaN (n = 0), +Infinity (n = 1) *)
(* and -Infinity (n = -1).  Rounding error of binary floating point and    *)
(* the sign of zero are not modelled.                                      *)
(***************************************************************************)
EXTENDS Integers, Sequences, FiniteSets, TLC

VARIABLES
    isMCPS,           \* what isMCPS() of ../utils answers in this session
    policy,           \* Gradebook.policy (GradingPolicy)
    courses,          \* Gradebook.courses: key -> Course
    modifiedCourses,  \* Gradebook.modifiedCourses: key -> CustomCourse
    courseOrders,     \* Gradebook.courseOrders: grading period -> CourseMetadata[]
    inflight,         \* updateAllCourses calls suspended at their await
    nextRequest,      \* history: the number the next request gets (issue order)
    applied,          \* history: the responses handed to populateAllCourses, in arrival order
    ret,              \* the outcome of the operation that ran last
    remembered        \* history: one earlier mapper call, kept for comparison

vars == <<isMCPS, policy, courses, modifiedCourses, courseOrders,
          inflight, nextRequest, applied, ret, remembered>>

NULL == "null"

-----------------------------------------------------------------------------
(* Numbers *)

Abs(x) == IF x < 0 THEN -x ELSE x

Sign(x) == IF x < 0 THEN -1 ELSE IF x > 0 THEN 1 ELSE 0

RECURSIVE Gcd(_, _)
Gcd(a, b) == IF b = 0 THEN a ELSE Gcd(b, a % b)

\* The number n/d, in the canonical form described above.
Num(n, d) ==
    IF d = 0 THEN <<Sign(n), 0>>
    ELSE LET g == Gcd(Abs(n), Abs(d))
         IN  <<(Sign(d) * n) \div g, Abs(d) \div g>>

Whole(n) == <<n, 1>>

NaN == <<0, 0>>

IsNaN(a) == a = NaN

IsInf(a) == a[2] = 0 /\ a[1] # 0

\* a + b
Add(a, b) ==
    IF IsNaN(a) \/ IsNaN(b) THEN NaN
    ELSE IF IsInf(a) /\ IsInf(b) THEN (IF a = b THEN a ELSE NaN)
    ELSE IF IsInf(a) THEN a
    ELSE IF IsInf(b) THEN b
    ELSE Num(a[1] * b[2] + b[1] * a[2], a[2] * b[2])

\* a * b
Mul(a, b) ==
    IF IsNaN(a) \/ IsNaN(b) THEN NaN
    ELSE Num(a[1] * b[1], a[2] * b[2])

\* a / b
Div(a, b) ==
    IF IsNaN(a) \/ IsNaN(b) THEN NaN
    ELSE IF IsInf(b) THEN (IF IsInf(a) THEN NaN ELSE Whole(0))
    ELSE IF IsInf(a) THEN (IF b[1] < 0 THEN <<-a[1], 0>> ELSE a)
    ELSE Num(a[1] * b[2], a[2] * b[1])

\* a >= b (false when either is NaN)
Geq(a, b) ==
    IF IsNaN(a) \/ IsNaN(b) THEN FALSE
    ELSE IF IsInf(a) \/ IsInf(b)
         THEN (a = b) \/ a = <<1, 0>> \/ b = <<-1, 0>>
    ELSE a[1] * b[2] >= b[1] * a[2]

\* a <= b (false when either is NaN)
Leq(a, b) == Geq(b, a)

\* Math.round(a): the nearest integer, halves rounded up
MathRound(a) ==
    IF a[2] = 0 THEN a
    ELSE Whole((2 * a[1] + a[2]) \div (2 * a[2]))

\* JavaScript truthiness of a number: 0 and NaN are falsy
Truthy(a) == ~IsNaN(a) /\ a # Whole(0)

-----------------------------------------------------------------------------
(* Sequences: Array.prototype.map, filter, sort and reduce *)

RECURSIVE SeqMap(_, _)
SeqMap(F(_), s) ==
    IF s = <<>> THEN <<>> ELSE <<F(Head(s))>> \o SeqMap(F, Tail(s))

RECURSIVE SeqFilter(_, _)
SeqFilter(P(_), s) ==
    IF s = <<>> THEN <<>>
    ELSE (IF P(Head(s)) THEN <<Head(s)>> ELSE <<>>) \o SeqFilter(P, Tail(s))

RECURSIVE Insert(_, _, _)
\* x put into the sorted sequence s after every element that does not come
\* after it: Before(a, b) says that a must come before b.
Insert(Before(_, _), x, s) ==
    IF s = <<>> THEN <<x>>
    ELSE IF Before(x, Head(s)) THEN <<x>> \o s
    ELSE <<Head(s)>> \o Insert(Before, x, Tail(s))

RECURSIVE SortFrom(_, _, _)
SortFrom(Before(_, _), s, i) ==
    IF i = 0 THEN <<>>
    ELSE Insert(Before, s[i], SortFrom(Before, s, i - 1))

\* Array.prototype.sort: a stable sort; Before(a, b) is "compare(a, b) < 0".
SortBy(Before(_, _), s) == SortFrom(Before, s, Len(s))

-----------------------------------------------------------------------------
(* Bounds of the model *)

\* updateAllCourses calls in one behaviour, the constructor's included
MaxRequests == 2

\* assignments in one fetched course
MaxAssignments == 2

\* boundaries of one report-card score type
MaxBoundaries == 3

\* measure types (categories) of one policy
MaxMeasureTypes == 2

-----------------------------------------------------------------------------
(* The session: grading periods, and what the server can answer *)

\* Gradebook.gradingPeriods, in the order Object.values lists them
gradingPeriods ==
    << [GU |-> "Q1", defaultFocus |-> FALSE],
       [GU |-> "Q2", defaultFocus |-> TRUE] >>

PeriodIds == {gradingPeriods[i].GU : i \in DOMAIN gradingPeriods}

\* get defaultGradingPeriod(): the first period with defaultFocus
defaultGradingPeriod ==
    LET i == CHOOSE j \in DOMAIN gradingPeriods :
                 /\ gradingPeriods[j].defaultFocus
                 /\ \A k \in 1..(j - 1) : ~gradingPeriods[k].defaultFocus
    IN  gradingPeriods[i].GU

ClassIds == {1, 2}

\* new Date(dueDate).getTime() on the due dates of the model, in days
GetTime(dueDate) ==
    CASE dueDate = "2023-09-10" -> 19610
      [] dueDate = "2023-10-20" -> 19650

\* parseFloat on the score texts of the model
ParseFloat(text) ==
    CASE text = "0"   -> Whole(0)
      [] text = "5"   -> Whole(5)
      [] text = "7"   -> Whole(7)
      [] text = "8"   -> Whole(8)
      [] text = "9"   -> Whole(9)
      [] text = "10"  -> Whole(10)
      [] text = "6.5" -> Num(13, 2)
      [] text = "0.85" -> Num(17, 20)
      [] OTHER        -> NaN

\* /\d/.test(text) on the texts of the model
HasDigit(text) == text \in {"0", "5", "7", "8", "9", "10", "6.5", "0.85"}

Assignment(dueDate, score, maxScore, measureTypeId, isForGrading) ==
    [dueDate |-> dueDate, score |-> score, maxScore |-> maxScore,
     measureTypeId |-> measureTypeId, isForGrading |-> isForGrading]

\* The sequences of length at most n of distinct elements of S
DistinctSeqs(S, n) ==
    UNION {{s \in [1..k -> S] : \A i, j \in 1..k : i # j => s[i] # s[j]} :
           k \in 0..n}

\* The assignments the server sends in the fetch scenarios
FetchedAssignments ==
    { Assignment("2023-09-10", "8", "10", 1, TRUE),
      Assignment("2023-10-20", "9", "10", 1, TRUE) }

FetchedCourses ==
    {[classId |-> c, assignments |-> l] :
        c \in ClassIds, l \in DistinctSeqs(FetchedAssignments, MaxAssignments)}

\* The course lists of a successful response: each class at most once (the
\* order of distinct classes does not matter to populateAllCourses)
FetchedData ==
    {s \in DistinctSeqs(FetchedCourses, Cardinality(ClassIds)) :
        \A i, j \in DOMAIN s : i < j => s[i].classId < s[j].classId}

ErrorTexts == {"", "Unauthorized"}

\* What Api.request resolves to: {data, error: null} when response.ok, else
\* {data: null, error: <the response text>}
RequestResults ==
    {[ok |-> TRUE, data |-> d, error |-> NULL] : d \in FetchedData}
    \cup {[ok |-> FALSE, data |-> <<>>, error |-> e] : e \in ErrorTexts}

-----------------------------------------------------------------------------
(* The course stores *)

Key(gradingPeriod, classId) == <<gradingPeriod, classId>>

\* ReactiveMap.set
MapSet(m, k, v) == [x \in DOMAIN m \cup {k} |-> IF x = k THEN v ELSE m[x]]

EmptyMap == [x \in {} |-> NULL]

createAssignment(base, isCustom) ==
    [dueDate |-> base.dueDate, score |-> base.score, maxScore |-> base.maxScore,
     measureTypeId |-> base.measureTypeId, isForGrading |-> base.isForGrading,
     isCustom |-> isCustom]

\* the comparator of populateModifiedCourse is negative: a sorts before b
DueDateDescending(a, b) == GetTime(b.dueDate) - GetTime(a.dueDate) < 0

\* The shadow copy populateModifiedCourse builds from a sorted array
ShadowOf(sorted) ==
    [assignments |-> SeqMap(LAMBDA a : createAssignment(a, FALSE), sorted),
     needsRollback |-> FALSE]

PopulateModifiedCourseSkipsEmpty(st, gradingPeriod, course) ==
    LET key    == Key(gradingPeriod, course.classId)
        sorted == SortBy(DueDateDescending, course.assignments)
    IN  [courses |->
            [k \in DOMAIN st.courses |->
                IF k = key THEN [course EXCEPT !.assignments = sorted]
                ELSE st.courses[k]],
         modifiedCourses |->
            IF sorted = <<>> THEN st.modifiedCourses
            ELSE MapSet(st.modifiedCourses, key, ShadowOf(sorted))]

\* populateModifiedCourse: st holds the two maps.  course is the object
\* stored under its key, and sort() reorders that object's array in place
\* before map() copies it.
PopulateModifiedCourse(st, gradingPeriod, course) ==
    LET key    == Key(gradingPeriod, course.classId)
        sorted == SortBy(DueDateDescending, course.assignments)
    IN  [courses |->
            [k \in DOMAIN st.courses |->
                IF k = key THEN [course EXCEPT !.assignments = sorted]
                ELSE st.courses[k]],
         modifiedCourses |-> MapSet(st.modifiedCourses, key, ShadowOf(sorted))]

RECURSIVE PopulateAllCoursesKeepsExisting(_, _, _)
PopulateAllCoursesKeepsExisting(st, gradingPeriod, data) ==
    IF data = <<>> THEN st
    ELSE LET course == Head(data)
             key    == Key(gradingPeriod, course.classId)
             set    == [st EXCEPT !.courses = MapSet(@, key, course)]
         IN  PopulateAllCoursesKeepsExisting(
                 IF key \in DOMAIN st.courses THEN st
                 ELSE PopulateModifiedCourse(set, gradingPeriod, course),
                 gradingPeriod, Tail(data))

RECURSIVE PopulateEach(_, _, _)
PopulateEach(st, gradingPeriod, data) ==
    IF data = <<>> THEN st
    ELSE LET course == Head(data)
             set    == [st EXCEPT
                          !.courses = MapSet(@, Key(gradingPeriod, course.classId), course)]
         IN  PopulateEach(PopulateModifiedCourse(set, gradingPeriod, course),
                          gradingPeriod, Tail(data))

PopulateAllCoursesClearsPeriod(st, gradingPeriod, data) ==
    LET keep == {k \in DOMAIN st.courses : k[1] # gradingPeriod}
    IN  PopulateEach([courses |-> [k \in keep |-> st.courses[k]],
                      modifiedCourses |->
                          [k \in keep \cap DOMAIN st.modifiedCourses |->
                              st.modifiedCourses[k]]],
                     gradingPeriod, data)

\* populateAllCourses: for each course in turn, courses.set and then
\* populateModifiedCourse
PopulateAllCourses(st, gradingPeriod, data) ==
    PopulateEach(st, gradingPeriod, data)

NoThrow == [name |-> "", message |-> ""]

\* updateAllCourses up to its await: the request is sent
UpdateAllCourses(gradingPeriod) ==
    /\ nextRequest <= MaxRequests
    /\ inflight' = inflight \cup
          {[id |-> nextRequest,
            gradingPeriod |-> IF gradingPeriod = NULL THEN defaultGradingPeriod
                              ELSE gradingPeriod]}
    /\ nextRequest' = nextRequest + 1
    /\ UNCHANGED <<isMCPS, policy, courses, modifiedCourses, courseOrders,
                   applied, ret, remembered>>

\* updateAllCourses from its await on: the request r resolves to result
ResumeUpdateAllCourses(r, result) ==
    /\ r \in inflight
    /\ inflight' = inflight \ {r}
    /\ IF ~result.ok /\ result.error # ""
       THEN \* if (error) throw new Error(error)
            /\ ret' = [op |-> "updateAllCourses", request |-> r.id,
                       result |-> [ok |-> result.ok, error |-> result.error],
                       populateCalled |-> FALSE,
                       thrown |-> [name |-> "Error", message |-> result.error]]
            /\ UNCHANGED <<courses, modifiedCourses, applied>>
       ELSE IF ~result.ok
       THEN \* the error text is empty, hence falsy: populateAllCourses(gradingPeriod, null),
            \* whose for-of throws before its first iteration
            /\ ret' = [op |-> "updateAllCourses", request |-> r.id,
                       result |-> [ok |-> result.ok, error |-> result.error],
                       populateCalled |-> TRUE,
                       thrown |-> [name |-> "TypeError",
                                   message |-> "courses is not iterable"]]
            /\ UNCHANGED <<courses, modifiedCourses, applied>>
       ELSE \E st \in {PopulateAllCourses(
                         [courses |-> courses, modifiedCourses |-> modifiedCourses],
                         r.gradingPeriod, result.data)} :
                /\ courses' = st.courses
                /\ modifiedCourses' = st.modifiedCourses
                /\ applied' = Append(applied,
                                 [request |-> r.id, gradingPeriod |-> r.gradingPeriod,
                                  data |-> result.data])
                /\ ret' = [op |-> "updateAllCourses", request |-> r.id,
                       result |-> [ok |-> result.ok, error |-> result.error],
                           populateCalled |-> TRUE, thrown |-> NoThrow]
    /\ UNCHANGED <<isMCPS, policy, courseOrders, nextRequest, remembered>>

-----------------------------------------------------------------------------
(* The fetch scenarios: the Gradebook from its construction on *)

\* The policy and course order of the login response in the fetch scenarios
LoginPolicy ==
    [measureTypes |-> << [id |-> 1, name |-> "Tests", weight |-> 100] >>,
     reportCardScoreTypes |->
        << [id |-> 1, max |-> 100,
            details |-> << [lowScore |-> 90, score |-> "A"],
                           [lowScore |-> 80, score |-> "B"] >>] >>,
     defaultReportCardScoreTypeId |-> 1]

LoginCourseOrder ==
    << [ID |-> 1, Name |-> <<"A", "r", "t">>, markPreview |-> "A"] >>

NoCall == [op |-> "none"]

\* The state the constructor leaves: empty stores, the default period's
\* course order, and its own updateAllCourses() waiting for the response
Init ==
    /\ isMCPS = FALSE
    /\ policy = LoginPolicy
    /\ courses = EmptyMap
    /\ modifiedCourses = EmptyMap
    /\ courseOrders = [p \in {defaultGradingPeriod} |-> LoginCourseOrder]
    /\ inflight = {[id |-> 1, gradingPeriod |-> defaultGradingPeriod]}
    /\ nextRequest = 2
    /\ applied = <<>>
    /\ ret = [op |-> "constructor"]
    /\ remembered = NoCall

Next ==
    \/ \E gradingPeriod \in PeriodIds \cup {NULL} : UpdateAllCourses(gradingPeriod)
    \/ \E r \in inflight, result \in RequestResults : ResumeUpdateAllCourses(r, result)

Spec == Init /\ [][Next]_vars

-----------------------------------------------------------------------------
(* The fetch scenarios: what the history says the stores should hold *)

AllKeys == {Key(p, c) : p \in PeriodIds, c \in ClassIds}

KeysOf(gradingPeriod, data) ==
    {Key(gradingPeriod, data[j].classId) : j \in DOMAIN data}

\* The applied responses that carried the course of key k
Writes(k) == {i \in DOMAIN applied : k \in KeysOf(applied[i].gradingPeriod, applied[i].data)}

LastWrite(k) == CHOOSE i \in Writes(k) : \A j \in Writes(k) : j <= i

\* The course of a class as a response carried it (the last one, were the
\* class listed twice)
CourseIn(data, classId) ==
    data[CHOOSE j \in DOMAIN data :
             /\ data[j].classId = classId
             /\ \A l \in DOMAIN data : data[l].classId = classId => l <= j]

\* The course of key k as the i-th applied response carried it
FetchedCourse(i, k) == CourseIn(applied[i].data, k[2])

InDueDateOrder(course) ==
    [classId |-> course.classId,
     assignments |-> SortBy(DueDateDescending, course.assignments)]

\* C9: the live store and the shadow store always have the same keys.
C9_SameKeys == DOMAIN courses = DOMAIN modifiedCourses

\* C9's case: a populated store after a fetch that failed
C9_Witness ==
    /\ ret.op = "updateAllCourses"
    /\ ~ret.result.ok
    /\ Cardinality(DOMAIN courses) = 2
    /\ \E k \in DOMAIN courses : courses[k].assignments = <<>>

\* C8: every key holds the course of the response that arrived last among
\* those that carried it (its assignments in due-date order, its shadow built
\* from them alone), whichever request that response answers; a key no
\* response carried has no entry.
C8_LastArrivalWins ==
    \A k \in AllKeys :
        IF Writes(k) = {}
        THEN k \notin DOMAIN courses /\ k \notin DOMAIN modifiedCourses
        ELSE LET course == InDueDateOrder(FetchedCourse(LastWrite(k), k))
             IN  /\ k \in DOMAIN courses /\ k \in DOMAIN modifiedCourses
                 /\ courses[k] = course
                 /\ modifiedCourses[k] = ShadowOf(course.assignments)

\* C8's case: the response of the request issued first arrived after the
\* response of a later request for the same period, with other data for the
\* same course, and the store holds the stale data
C8_Witness ==
    \E k \in AllKeys : \E i, j \in Writes(k) :
        /\ i < j /\ j = LastWrite(k)
        /\ applied[j].request < applied[i].request
        /\ InDueDateOrder(FetchedCourse(i, k)) # InDueDateOrder(FetchedCourse(j, k))
        /\ courses[k] = InDueDateOrder(FetchedCourse(j, k))

C7_CourseListAsFetched ==
    \A k \in DOMAIN courses :
        Writes(k) # {} =>
            courses[k].assignments = FetchedCourse(LastWrite(k), k).assignments

\* C10 as stated: a request that resolves to the {error} variant ends
\* updateAllCourses with an Error carrying the server's text, without a call
\* of populateAllCourses, with the stores and the course orders unchanged and
\* with no new request.
C10_FailedFetch ==
    [][(ret' # ret /\ ret'.op = "updateAllCourses" /\ ~ret'.result.ok) =>
        /\ ret'.thrown = [name |-> "Error", message |-> ret'.result.error]
        /\ ~ret'.populateCalled
        /\ UNCHANGED <<courses, modifiedCourses, courseOrders, nextRequest>>
        /\ inflight' \subseteq inflight
      ]_vars

-----------------------------------------------------------------------------
(* The mark and style mappers *)

\* policy.reportCardScoreTypes.find(type => type.id === scoreType): the index
\* of the first score type of that id, 0 for undefined
FindScoreType(pol, scoreType) ==
    LET types == pol.reportCardScoreTypes
        hits  == {i \in DOMAIN types : types[i].id = scoreType}
    IN  IF hits = {} THEN 0 ELSE CHOOSE i \in hits : \A j \in hits : i <= j

\* the comparator (a, b) => b.lowScore - a.lowScore is negative
LowScoreDescending(a, b) == b.lowScore - a.lowScore < 0

\* The fixed thresholds of the district branch of calculateMark
McpsMark(ratio) ==
    IF Geq(ratio, Num(895, 1000)) THEN "A"
    ELSE IF Geq(ratio, Num(795, 1000)) THEN "B"
    ELSE IF Geq(ratio, Num(695, 1000)) THEN "C"
    ELSE IF Geq(ratio, Num(595, 1000)) THEN "D"
    ELSE "E"

RECURSIVE FirstBoundaryScore(_, _, _)
\* the loop of calculateMark over the boundaries in the order given
FirstBoundaryScore(details, max, ratio) ==
    IF details = <<>> THEN "N/A"
    ELSE IF Geq(ratio, Div(Whole(Head(details).lowScore), Whole(max)))
         THEN Head(details).score
    ELSE FirstBoundaryScore(Tail(details), max, ratio)

CalculateMarkUnsorted(pol, mcps, scoreType, ratio) ==
    LET i == FindScoreType(pol, scoreType)
    IN  IF IsNaN(ratio) \/ i = 0 THEN [value |-> "N/A", policy |-> pol]
        ELSE IF pol.reportCardScoreTypes[i].max = -1
             THEN [value |-> "N/A", policy |-> pol]
        ELSE IF mcps THEN [value |-> McpsMark(ratio), policy |-> pol]
        ELSE [value |-> FirstBoundaryScore(pol.reportCardScoreTypes[i].details,
                                           pol.reportCardScoreTypes[i].max, ratio),
              policy |-> pol]

\* calculateMark: the label it returns and the policy it leaves, since
\* policy.details.sort(...) sorts the policy's own array in place
CalculateMark(pol, mcps, scoreType, ratio) ==
    LET i == FindScoreType(pol, scoreType)
    IN  IF IsNaN(ratio) \/ i = 0 THEN [value |-> "N/A", policy |-> pol]
        ELSE IF pol.reportCardScoreTypes[i].max = -1
             THEN [value |-> "N/A", policy |-> pol]
        ELSE IF mcps THEN [value |-> McpsMark(ratio), policy |-> pol]
        ELSE LET sorted == SortBy(LowScoreDescending,
                                  pol.reportCardScoreTypes[i].details)
             IN  [value |-> FirstBoundaryScore(sorted,
                                pol.reportCardScoreTypes[i].max, ratio),
                  policy |-> [pol EXCEPT !.reportCardScoreTypes[i].details = sorted]]

\* `scale-${scale}`
ScaleLabel(scale) ==
    CASE scale = 0 -> "scale-0"
      [] scale = 1 -> "scale-1"
      [] scale = 2 -> "scale-2"
      [] scale = 3 -> "scale-3"
      [] scale = 4 -> "scale-4"
      [] scale = 5 -> "scale-5"
      [] scale = 6 -> "scale-6"

\* The district branch of calculateScoreStyle
McpsStyle(ratio) ==
    IF IsNaN(ratio) THEN "fg"
    ELSE IF Geq(ratio, Num(895, 1000)) THEN ScaleLabel(5)
    ELSE IF Geq(ratio, Num(795, 1000)) THEN ScaleLabel(4)
    ELSE IF Geq(ratio, Num(695, 1000)) THEN ScaleLabel(3)
    ELSE IF Geq(ratio, Num(595, 1000)) THEN ScaleLabel(2)
    ELSE ScaleLabel(1)

\* Math.round(ratio * 10_000) / 10_000
RoundToHundredthsOfPercent(ratio) ==
    Div(MathRound(Mul(ratio, Whole(10000))), Whole(10000))

Max2(a, b) == IF a >= b THEN a ELSE b

RECURSIVE BoundaryWalk(_, _, _, _)
\* the loop of calculateScoreStyle over policy.details in the order given
BoundaryWalk(details, max, ratio, scale) ==
    IF details = <<>> THEN "fg"
    ELSE IF Geq(ratio, Div(Whole(Head(details).lowScore), Whole(max)))
         THEN ScaleLabel(scale)
    ELSE BoundaryWalk(Tail(details), max, ratio, Max2(1, scale - 1))

\* What calculateScoreStyle does once the score type is found and scored
\* and the ratio is strictly between 0 and 1 (or NaN)
StyleWithin(type, mcps, ratio) ==
    IF mcps THEN McpsStyle(ratio)
    ELSE BoundaryWalk(type.details, type.max,
                      RoundToHundredthsOfPercent(ratio), 5)

CalculateScoreStyleNoEndpoints(pol, mcps, scoreType, ratio) ==
    LET i == FindScoreType(pol, scoreType)
    IN  IF i = 0
        THEN [value |-> "", thrown |-> [name |-> "TypeError",
                                        message |-> "policy is undefined"]]
        ELSE IF pol.reportCardScoreTypes[i].max = -1
             THEN [value |-> "fg", thrown |-> NoThrow]
        ELSE [value |-> StyleWithin(pol.reportCardScoreTypes[i], mcps, ratio),
              thrown |-> NoThrow]

\* calculateScoreStyle: the label it returns, or what it throws (reading
\* policy.max of an id the policy does not list)
CalculateScoreStyle(pol, mcps, scoreType, ratio) ==
    LET i == FindScoreType(pol, scoreType)
    IN  IF i = 0
        THEN [value |-> "", thrown |-> [name |-> "TypeError",
                                        message |-> "policy is undefined"]]
        ELSE IF pol.reportCardScoreTypes[i].max = -1
             THEN [value |-> "fg", thrown |-> NoThrow]
        ELSE IF Geq(ratio, Whole(1)) THEN [value |-> ScaleLabel(6), thrown |-> NoThrow]
        ELSE IF Leq(ratio, Whole(0)) THEN [value |-> ScaleLabel(0), thrown |-> NoThrow]
        ELSE [value |-> StyleWithin(pol.reportCardScoreTypes[i], mcps, ratio),
              thrown |-> NoThrow]

\* The details of a score type as the policy lists them now
ListedDetails(scoreType) ==
    LET i == FindScoreType(policy, scoreType)
    IN  IF i = 0 THEN <<>> ELSE policy.reportCardScoreTypes[i].details

\* A call of calculateMark by the presentation code
CallCalculateMark(scoreType, ratio) ==
    /\ \E r \in {CalculateMark(policy, isMCPS, scoreType, ratio)} :
       \E call \in {[op |-> "calculateMark", scoreType |-> scoreType,
                     ratio |-> ratio, listed |-> ListedDetails(scoreType),
                     value |-> r.value, thrown |-> NoThrow]} :
           /\ policy' = r.policy
           /\ ret' = call
           /\ remembered' \in {remembered, call}
    /\ UNCHANGED <<isMCPS, courses, modifiedCourses, courseOrders,
                   inflight, nextRequest, applied>>

\* A call of calculateScoreStyle by the presentation code
CallCalculateScoreStyle(scoreType, ratio) ==
    /\ \E r \in {CalculateScoreStyle(policy, isMCPS, scoreType, ratio)} :
       \E call \in {[op |-> "calculateScoreStyle", scoreType |-> scoreType,
                     ratio |-> ratio, listed |-> ListedDetails(scoreType),
                     value |-> r.value, thrown |-> r.thrown]} :
           /\ ret' = call
           /\ remembered' \in {remembered, call}
    /\ UNCHANGED <<isMCPS, policy, courses, modifiedCourses, courseOrders,
                   inflight, nextRequest, applied>>

-----------------------------------------------------------------------------
(* The mapper scenarios: any sequence of mapper calls on one Gradebook *)

Boundaries ==
    { [lowScore |-> 90, score |-> "A"],
      [lowScore |-> 80, score |-> "B"],
      [lowScore |-> 70, score |-> "C"] }

\* The policies of the mapper scenarios: score type 1 is scored, with its
\* boundaries listed in any order; score type 2 is unscored (max -1)
MapperPolicies ==
    {[measureTypes |-> LoginPolicy.measureTypes,
      reportCardScoreTypes |->
          << [id |-> 1, max |-> m, details |-> d],
             [id |-> 2, max |-> -1, details |-> <<>>] >>,
      defaultReportCardScoreTypeId |-> 1] :
        m \in {100, 200}, d \in DistinctSeqs(Boundaries, MaxBoundaries)}

\* the ids the presentation code asks for: 3 is not in the policy
AskedScoreTypes == {1, 2, 3}

AskedRatios ==
    { NaN, Whole(0), Whole(1), Num(1, 2), Num(17, 20), Num(19, 20) }

InitMapper ==
    /\ isMCPS \in BOOLEAN
    /\ policy \in MapperPolicies
    /\ courses = EmptyMap
    /\ modifiedCourses = EmptyMap
    /\ courseOrders = [p \in {defaultGradingPeriod} |-> LoginCourseOrder]
    /\ inflight = {}
    /\ nextRequest = 2
    /\ applied = <<>>
    /\ ret = [op |-> "constructor"]
    /\ remembered = NoCall

NextMapper ==
    \/ \E scoreType \in AskedScoreTypes, ratio \in AskedRatios :
           CallCalculateMark(scoreType, ratio)
    \/ \E scoreType \in AskedScoreTypes, ratio \in AskedRatios :
           CallCalculateScoreStyle(scoreType, ratio)

SpecMapper == InitMapper /\ [][NextMapper]_vars

\* The score type a call named, as the policy holds it
TypeOf(call) == policy.reportCardScoreTypes[FindScoreType(policy, call.scoreType)]

IsScoredCall(call, op) ==
    /\ call.op = op
    /\ FindScoreType(policy, call.scoreType) # 0
    /\ TypeOf(call).max # -1

\* C2: in the generic branch, for a scored score type and a numeric ratio,
\* calculateMark returns the label of the boundary with the greatest low
\* score among those with lowScore / max <= ratio, and "N/A" when there is
\* none, in whatever order the policy lists the boundaries.
C2_GreatestQualifyingBoundary ==
    (IsScoredCall(ret, "calculateMark") /\ ~isMCPS /\ ~IsNaN(ret.ratio)) =>
        LET type == TypeOf(ret)
            all  == {ret.listed[i] : i \in DOMAIN ret.listed}
            qualifying ==
                {b \in all : Leq(Div(Whole(b.lowScore), Whole(type.max)), ret.ratio)}
        IN  IF qualifying = {} THEN ret.value = "N/A"
            ELSE \E b \in qualifying :
                     /\ \A c \in qualifying : c.lowScore <= b.lowScore
                     /\ ret.value = b.score

\* C2's case: 0.85 against (80,B),(70,C),(90,A) of max 100, listed in an
\* order in which the first boundary that fits is not the greatest
C2_Witness ==
    /\ IsScoredCall(ret, "calculateMark") /\ ~isMCPS
    /\ TypeOf(ret).max = 100
    /\ ret.ratio = Num(17, 20)
    /\ ret.listed = << [lowScore |-> 70, score |-> "C"],
                       [lowScore |-> 90, score |-> "A"],
                       [lowScore |-> 80, score |-> "B"] >>
    /\ ret.value = "B"

\* C4 as stated: at ratio exactly 1 calculateScoreStyle returns scale-6 and
\* at ratio exactly 0 scale-0, for every score type of the policy.
C4_EndpointsForEveryType ==
    (ret.op = "calculateScoreStyle" /\ FindScoreType(policy, ret.scoreType) # 0) =>
        /\ ret.ratio = Whole(1) => ret.value = "scale-6"
        /\ ret.ratio = Whole(0) => ret.value = "scale-0"

\* C4 amended: at ratio exactly 1 calculateScoreStyle returns scale-6 and at
\* ratio exactly 0 scale-0 for every scored score type of the policy (one
\* whose max is not -1), whatever its boundaries and in either mode; for an
\* unscored score type it returns fg.
C4_EndpointsForScoredTypes ==
    (ret.op = "calculateScoreStyle" /\ FindScoreType(policy, ret.scoreType) # 0
        /\ ret.ratio \in {Whole(0), Whole(1)}) =>
        IF TypeOf(ret).max = -1 THEN ret.value = "fg"
        ELSE /\ ret.ratio = Whole(1) => ret.value = "scale-6"
             /\ ret.ratio = Whole(0) => ret.value = "scale-0"

\* C4's case: ratio 1 on a scored type in the generic branch gave scale-6
\* (its first listed boundary alone would give scale-5), after ratio 0 on a
\* scored type gave scale-0
C4_Witness ==
    /\ IsScoredCall(ret, "calculateScoreStyle") /\ ~isMCPS
    /\ ret.ratio = Whole(1) /\ ret.value = "scale-6"
    /\ ret.listed # <<>>
    /\ IsScoredCall(remembered, "calculateScoreStyle")
    /\ remembered.ratio = Whole(0) /\ remembered.value = "scale-0"

\* C5 as stated: two calls of the same mapper with the same score type and
\* ratio return the same label, whatever mapper calls came before or
\* between them.
C5_SameInputsSameLabel ==
    (/\ remembered.op \in {"calculateMark", "calculateScoreStyle"}
     /\ remembered.op = ret.op
     /\ remembered.scoreType = ret.scoreType
     /\ remembered.ratio = ret.ratio) =>
        /\ remembered.value = ret.value
        /\ remembered.thrown = ret.thrown

-----------------------------------------------------------------------------
(* The weight resolver, the aggregators and the ratio calculator *)

\* computeWeight
computeWeight(mcps, measureType) ==
    IF ~mcps THEN Div(Whole(measureType.weight), Whole(100))
    ELSE CASE measureType.name = "All Tasks / Assessments" -> Num(9, 10)
           [] measureType.name = "Practice / Preparation"  -> Num(1, 10)
           [] OTHER -> Div(Whole(measureType.weight), Whole(100))

RECURSIVE SumBy(_, _)
\* .reduce((acc, assignment) => acc + transform(assignment), 0)
SumBy(Transform(_), s) ==
    IF s = <<>> THEN Whole(0)
    ELSE Add(SumBy(Transform, SubSeq(s, 1, Len(s) - 1)), Transform(s[Len(s)]))

\* totalAssignmentPointsBy on the list it ends up reading: transform maps
\* each assignment of the list to its number; category is {id} for the
\* category id given and {} for none
totalAssignmentPointsBy(transform, category, assignments) ==
    SumBy(LAMBDA a : transform[a],
          SeqFilter(LAMBDA a : /\ a.isForGrading
                               /\ a.score # NULL
                               /\ \A categoryId \in category :
                                      a.measureTypeId = categoryId,
                    assignments))

\* totalAssignmentPoints
totalAssignmentPoints(category, assignments) ==
    totalAssignmentPointsBy(
        [a \in {assignments[i] : i \in DOMAIN assignments} |-> ParseFloat(a.score)],
        category, assignments)

\* maxAssignmentPoints
maxAssignmentPoints(category, assignments) ==
    totalAssignmentPointsBy(
        [a \in {assignments[i] : i \in DOMAIN assignments} |-> ParseFloat(a.maxScore)],
        category, assignments)

\* adjustments?.[id] ?? [0, 0]; no adjustments argument is the empty map
AdjustmentFor(adjustments, id) ==
    IF id \in DOMAIN adjustments THEN adjustments[id] ELSE <<Whole(0), Whole(0)>>

\* One category's [weight, weighted ratio] pair
WeightedPair(mcps, type, assignments, adjustments) ==
    LET weight == computeWeight(mcps, type)
        total  == maxAssignmentPoints({type.id}, assignments)
        extra  == AdjustmentFor(adjustments, type.id)
    IN  <<weight,
          Mul(Div(Add(totalAssignmentPoints({type.id}, assignments), extra[1]),
                  Add(total, extra[2])),
              weight)>>

\* The normalised sum of the pairs that are left
NormalisedRatio(pairs) ==
    LET kept == SeqFilter(LAMBDA pr : ~IsNaN(pr[2]), pairs)
    IN  Div(SumBy(LAMBDA pr : pr[2], kept), SumBy(LAMBDA pr : pr[1], kept))

CalculateWeightedPointRatioKeepsUngraded(pol, mcps, assignments, adjustments) ==
    NormalisedRatio(
        SeqMap(LAMBDA type : WeightedPair(mcps, type, assignments, adjustments),
               pol.measureTypes))

\* calculateWeightedPointRatio on the assignment list it ends up reading
CalculateWeightedPointRatio(pol, mcps, assignments, adjustments) ==
    LET graded == SeqFilter(
                      LAMBDA type : Truthy(maxAssignmentPoints({type.id}, assignments)),
                      pol.measureTypes)
    IN  NormalisedRatio(
            SeqMap(LAMBDA type : WeightedPair(mcps, type, assignments, adjustments),
                   graded))

NoList == [given |-> FALSE, list |-> <<>>]

\* assignments ??= this.modifiedCourses.get(key)!.assignments
AssignmentsRead(gradingPeriod, courseId, override) ==
    IF override.given THEN override.list
    ELSE modifiedCourses[Key(gradingPeriod, courseId)].assignments

\* A call of calculateWeightedPointRatio for a course the shadow store holds
CallCalculateWeightedPointRatio(gradingPeriod, courseId, adjustments, override) ==
    /\ Key(gradingPeriod, courseId) \in DOMAIN modifiedCourses
    /\ ret' = [op |-> "calculateWeightedPointRatio",
               gradingPeriod |-> gradingPeriod, courseId |-> courseId,
               adjustments |-> adjustments, override |-> override,
               value |-> CalculateWeightedPointRatio(
                             policy, isMCPS,
                             AssignmentsRead(gradingPeriod, courseId, override),
                             adjustments)]
    /\ UNCHANGED <<isMCPS, policy, courses, modifiedCourses, courseOrders,
                   inflight, nextRequest, applied, remembered>>

-----------------------------------------------------------------------------
(* The ratio scenarios: one fetched course, any policy, any call *)

RatioAssignments ==
    { Assignment("2023-09-10", "8", "10", 1, TRUE),    \* category 1: 8 of 10
      Assignment("2023-10-20", "9", "10", 2, TRUE),    \* category 2: 9 of 10
      Assignment("2023-10-20", NULL, "10", 2, TRUE),   \* category 2, not scored yet
      Assignment("2023-09-10", "5", "0", 2, TRUE),     \* category 2, 5 points of 0
      Assignment("2023-10-20", "10", "10", 1, FALSE) } \* category 1, not for grading

MeasureTypes ==
    { [id |-> 1, name |-> "All Tasks / Assessments", weight |-> 50],
      [id |-> 2, name |-> "Practice / Preparation", weight |-> 50],
      [id |-> 3, name |-> "Participation", weight |-> 25] }

RatioPolicies ==
    {[LoginPolicy EXCEPT !.measureTypes = m] :
        m \in DistinctSeqs(MeasureTypes, MaxMeasureTypes)}

\* The adjustments argument: none, or extra (earned, possible) points
AskedAdjustments ==
    { EmptyMap,
      [id \in {2} |-> <<Whole(5), Whole(10)>>],
      [id \in {3} |-> <<Whole(1), Whole(4)>>],
      [id \in {1} |-> <<Whole(2), Whole(0)>>] }

\* The assignments argument: none, or a what-if list
AskedLists ==
    { NoList,
      [given |-> TRUE,
       list |-> << createAssignment(Assignment("2023-10-20", "9", "10", 2, TRUE), TRUE),
                   createAssignment(Assignment("2023-09-10", "8", "10", 1, TRUE), FALSE) >>] }

\* The Gradebook once the constructor's fetch has brought one course
InitRatio ==
    \E l \in DistinctSeqs(RatioAssignments, MaxAssignments) :
        LET data == << [classId |-> 1, assignments |-> l] >>
            st   == PopulateAllCourses(
                        [courses |-> EmptyMap, modifiedCourses |-> EmptyMap],
                        defaultGradingPeriod, data)
        IN  /\ isMCPS \in BOOLEAN
            /\ policy \in RatioPolicies
            /\ courses = st.courses
            /\ modifiedCourses = st.modifiedCourses
            /\ courseOrders = [p \in {defaultGradingPeriod} |-> LoginCourseOrder]
            /\ inflight = {}
            /\ nextRequest = 2
            /\ applied = << [request |-> 1, gradingPeriod |-> defaultGradingPeriod,
                             data |-> data] >>
            /\ ret = [op |-> "updateAllCourses", request |-> 1,
                      result |-> [ok |-> TRUE, error |-> NULL],
                      populateCalled |-> TRUE, thrown |-> NoThrow]
            /\ remembered = NoCall

NextRatio ==
    \E adjustments \in AskedAdjustments, override \in AskedLists :
        CallCalculateWeightedPointRatio(defaultGradingPeriod, 1, adjustments, override)

SpecRatio == InitRatio /\ [][NextRatio]_vars

\* The assignment list the last calculateWeightedPointRatio call read
ListRead(call) == AssignmentsRead(call.gradingPeriod, call.courseId, call.override)

\* Whether the category has zero possible points in the list the call read
Ungraded(call, type) == maxAssignmentPoints({type.id}, ListRead(call)) = Whole(0)

\* C1: the ratio calculateWeightedPointRatio returns is the ratio it returns
\* for the policy without its categories of zero possible points and without
\* their adjustment pairs: such a category, whatever its weight and its
\* adjustment pair, changes nothing.
C1_UngradedCategoriesExcluded ==
    ret.op = "calculateWeightedPointRatio" =>
        LET graded == SeqFilter(LAMBDA type : ~Ungraded(ret, type), policy.measureTypes)
            ids    == {graded[i].id : i \in DOMAIN graded}
        IN  ret.value =
                CalculateWeightedPointRatio(
                    [policy EXCEPT !.measureTypes = graded], isMCPS, ListRead(ret),
                    [id \in DOMAIN ret.adjustments \cap ids |-> ret.adjustments[id]])

\* C1's case: weights 0.5 and 0.5, 8 of 10 in the first category, the second
\* with points earned but zero possible and an adjustment pair of its own:
\* the ratio is 0.8
C1_Witness ==
    /\ ret.op = "calculateWeightedPointRatio"
    /\ ~isMCPS
    /\ ~ret.override.given
    /\ Len(policy.measureTypes) = 2
    /\ policy.measureTypes[1].id = 1 /\ policy.measureTypes[2].id = 2
    /\ maxAssignmentPoints({1}, ListRead(ret)) = Whole(10)
    /\ totalAssignmentPoints({2}, ListRead(ret)) = Whole(5)
    /\ Ungraded(ret, policy.measureTypes[2])
    /\ 2 \in DOMAIN ret.adjustments
    /\ ret.value = Num(4, 5)

-----------------------------------------------------------------------------
(* The GPA aggregator *)

\* name.includes(term) on character sequences
Includes(name, term) ==
    \E i \in 1..(Len(name) - Len(term) + 1) :
        SubSeq(name, i, i + Len(term) - 1) = term

WeightingTerms ==
    { <<"A", "P">>, <<"H", "o", "n">>, <<"H", "o", "n", "o", "r", "s">>,
      <<"A", "d", "v">>, <<"A", "d", "v", "a", "n", "c", "e", "d">>,
      <<"M", "a", "g">>, <<"M", "a", "g", "n", "e", "t">>, <<"I", "B">> }

\* isMcpsCourseWeighted
isMcpsCourseWeighted(name) == \E term \in WeightingTerms : Includes(name, term)

mcpsGpaValueBonusForEveryMark(mark, weighted) ==
    LET extra == IF weighted THEN 1 ELSE 0
    IN  CASE mark = "A" -> [counted |-> TRUE, value |-> 4 + extra]
          [] mark = "B" -> [counted |-> TRUE, value |-> 3 + extra]
          [] mark = "C" -> [counted |-> TRUE, value |-> 2 + extra]
          [] mark = "D" -> [counted |-> TRUE, value |-> 1 + extra]
          [] mark = "E" -> [counted |-> TRUE, value |-> 0 + extra]
          [] OTHER      -> [counted |-> FALSE, value |-> 0]

\* mcpsGpaValue: counted is FALSE where it returns null
mcpsGpaValue(mark, weighted) ==
    LET extra == IF weighted THEN 1 ELSE 0
    IN  CASE mark = "A" -> [counted |-> TRUE, value |-> 4 + extra]
          [] mark = "B" -> [counted |-> TRUE, value |-> 3 + extra]
          [] mark = "C" -> [counted |-> TRUE, value |-> 2 + extra]
          [] mark = "D" -> [counted |-> TRUE, value |-> 1]
          [] mark = "E" -> [counted |-> TRUE, value |-> 0]
          [] OTHER      -> [counted |-> FALSE, value |-> 0]

\* The mark of one course of the ordering, and the policy getMark leaves
CourseMark(pol, mcps, gradingPeriod, course) ==
    LET key == Key(gradingPeriod, course.ID)
    IN  IF key \in DOMAIN modifiedCourses
        THEN CalculateMark(pol, mcps, pol.defaultReportCardScoreTypeId,
                           CalculateWeightedPointRatio(
                               pol, mcps, modifiedCourses[key].assignments, EmptyMap))
        ELSE IF HasDigit(course.markPreview)
        THEN CalculateMark(pol, mcps, pol.defaultReportCardScoreTypeId,
                           ParseFloat(course.markPreview))
        ELSE [value |-> course.markPreview, policy |-> pol]

RECURSIVE GpaLoop(_, _, _, _)
\* the loop of calculateMcpsGpa over the courses left; acc holds its locals
GpaLoop(acc, mcps, gradingPeriod, order) ==
    IF order = <<>> THEN acc
    ELSE LET course   == Head(order)
             m        == CourseMark(acc.policy, mcps, gradingPeriod, course)
             weighted == mcpsGpaValue(m.value, isMcpsCourseWeighted(course.Name))
             plain    == mcpsGpaValue(m.value, FALSE)
             next     ==
                 IF weighted.counted
                 THEN [policy |-> m.policy,
                       totalWeighted |-> acc.totalWeighted + weighted.value,
                       totalUnweighted |-> acc.totalUnweighted +
                                           (IF plain.counted THEN plain.value ELSE 0),
                       count |-> acc.count + 1,
                       marks |-> Append(acc.marks, m.value)]
                 ELSE [acc EXCEPT !.policy = m.policy,
                                  !.marks = Append(@, m.value)]
         IN  GpaLoop(next, mcps, gradingPeriod, Tail(order))

\* A call of calculateMcpsGpa for a period that has a course ordering
CallCalculateMcpsGpa(gradingPeriod) ==
    /\ gradingPeriod \in DOMAIN courseOrders
    /\ \E end \in {GpaLoop([policy |-> policy, totalWeighted |-> 0,
                            totalUnweighted |-> 0, count |-> 0, marks |-> <<>>],
                           isMCPS, gradingPeriod, courseOrders[gradingPeriod])} :
           /\ policy' = end.policy
           /\ ret' = [op |-> "calculateMcpsGpa", gradingPeriod |-> gradingPeriod,
                      marks |-> end.marks,
                      totalWeighted |-> end.totalWeighted,
                      totalUnweighted |-> end.totalUnweighted,
                      count |-> end.count,
                      value |-> [weighted |-> Div(Whole(end.totalWeighted),
                                                  Whole(end.count)),
                                 unweighted |-> Div(Whole(end.totalUnweighted),
                                                    Whole(end.count))]]
    /\ UNCHANGED <<isMCPS, courses, modifiedCourses, courseOrders,
                   inflight, nextRequest, applied, remembered>>

-----------------------------------------------------------------------------
(* The GPA scenarios: any course ordering, course 1 fetched or not *)

NameAPCalculus == <<"A", "P", " ", "C", "a", "l", "c", "u", "l", "u", "s">>

NameBiology == <<"B", "i", "o", "l", "o", "g", "y">>

MarkPreviews == {"A", "B", "C", "D", "E", "P", "0.85"}

OrderedCourses ==
    {[ID |-> c, Name |-> n, markPreview |-> m] :
        c \in ClassIds, n \in {NameAPCalculus, NameBiology}, m \in MarkPreviews}

\* The course orderings: each class at most once
CourseOrderings ==
    {s \in DistinctSeqs(OrderedCourses, Cardinality(ClassIds)) :
        \A i, j \in DOMAIN s : i # j => s[i].ID # s[j].ID}

GpaAssignments ==
    {Assignment("2023-09-10", s, "10", 1, TRUE) : s \in {"9", "8", "7", "6.5", "5"}}

\* What the constructor's fetch brought: nothing, or course 1
GpaFetches ==
    {<<>>} \cup
    {<< [classId |-> 1, assignments |-> l] >> :
        l \in DistinctSeqs(GpaAssignments, MaxAssignments)}

InitGpa ==
    \E data \in GpaFetches :
        LET st == PopulateAllCourses(
                      [courses |-> EmptyMap, modifiedCourses |-> EmptyMap],
                      defaultGradingPeriod, data)
        IN  /\ isMCPS \in BOOLEAN
            /\ policy = LoginPolicy
            /\ courses = st.courses
            /\ modifiedCourses = st.modifiedCourses
            /\ courseOrders \in [{defaultGradingPeriod} -> CourseOrderings]
            /\ inflight = {}
            /\ nextRequest = 2
            /\ applied = << [request |-> 1, gradingPeriod |-> defaultGradingPeriod,
                             data |-> data] >>
            /\ ret = [op |-> "updateAllCourses", request |-> 1,
                      result |-> [ok |-> TRUE, error |-> NULL],
                      populateCalled |-> TRUE, thrown |-> NoThrow]
            /\ remembered = NoCall

NextGpa == \E gradingPeriod \in PeriodIds : CallCalculateMcpsGpa(gradingPeriod)

SpecGpa == InitGpa /\ [][NextGpa]_vars

RECURSIVE SumOver(_, _)
SumOver(f, S) ==
    IF S = {} THEN 0
    ELSE LET x == CHOOSE y \in S : TRUE IN f[x] + SumOver(f, S \ {x})

LetterPoints(mark) ==
    CASE mark = "A" -> 4 [] mark = "B" -> 3 [] mark = "C" -> 2
      [] mark = "D" -> 1 [] mark = "E" -> 0

\* The positions of the ordering the last calculateMcpsGpa call counted
Counted(call) ==
    {i \in DOMAIN call.marks : call.marks[i] \in {"A", "B", "C", "D", "E"}}

IsWeightedAt(call, i) ==
    isMcpsCourseWeighted(courseOrders[call.gradingPeriod][i].Name)

\* C3 as stated: every counted course adds 4, 3, 2, 1 or 0 for A to E to the
\* unweighted total, and that value plus 1 to the weighted total when the
\* course is GPA-weighted, for each of the five marks.
C3_BonusForEveryMark ==
    ret.op = "calculateMcpsGpa" =>
        /\ ret.count = Cardinality(Counted(ret))
        /\ ret.totalUnweighted =
               SumOver([i \in Counted(ret) |-> LetterPoints(ret.marks[i])], Counted(ret))
        /\ ret.totalWeighted =
               SumOver([i \in Counted(ret) |->
                           LetterPoints(ret.marks[i])
                           + (IF IsWeightedAt(ret, i) THEN 1 ELSE 0)],
                       Counted(ret))

\* C3 amended: every counted course adds 4, 3, 2, 1 or 0 for A to E to the
\* unweighted total; to the weighted total a GPA-weighted course adds that
\* value plus 1 for the marks A, B and C only, and 1 for D and 0 for E like
\* any other course.  The averages returned are the totals over the count.
C3_BonusForAToC ==
    ret.op = "calculateMcpsGpa" =>
        /\ ret.count = Cardinality(Counted(ret))
        /\ ret.totalUnweighted =
               SumOver([i \in Counted(ret) |-> LetterPoints(ret.marks[i])], Counted(ret))
        /\ ret.totalWeighted =
               SumOver([i \in Counted(ret) |->
                           LetterPoints(ret.marks[i])
                           + (IF IsWeightedAt(ret, i) /\ ret.marks[i] \in {"A", "B", "C"}
                              THEN 1 ELSE 0)],
                       Counted(ret))
        /\ ret.value = [weighted |-> Div(Whole(ret.totalWeighted), Whole(ret.count)),
                        unweighted |-> Div(Whole(ret.totalUnweighted), Whole(ret.count))]

\* C3's case: "AP Calculus" with a recomputed B (4 weighted, 3 unweighted)
\* and "Biology" with the preview mark D (1 and 1)
C3_Witness ==
    /\ ret.op = "calculateMcpsGpa"
    /\ isMCPS
    /\ Key(ret.gradingPeriod, 1) \in DOMAIN modifiedCourses
    /\ Len(courseOrders[ret.gradingPeriod]) = 2
    /\ courseOrders[ret.gradingPeriod][1].ID = 1
    /\ courseOrders[ret.gradingPeriod][1].Name = NameAPCalculus
    /\ courseOrders[ret.gradingPeriod][2].Name = NameBiology
    /\ ret.marks = <<"B", "D">>
    /\ ret.totalWeighted = 5 /\ ret.totalUnweighted = 4 /\ ret.count = 2
    /\ ret.value = [weighted |-> Num(5, 2), unweighted |-> Whole(2)]

====
